---- MODULE Spec2Model ----
(***************************************************************************)
(* Model of libs/vr/libeds/device_metrics.cpp: the property accessors      *)
(* (StringToFloat, SplitString, the two GetProperty overloads), the        *)
(* derived getters and the three metrics factories.                        *)
(*                                                                         *)
(* A C string is a sequence of one-character strings.  A float is a        *)
(* fixed-point integer counting 1/Unit; digits below 1/Unit are dropped,   *)
(* as a float drops digits below its precision.  A shared_ptr is the id    *)
(* of the instance it points to, so pointer equality is id equality.       *)
(***************************************************************************)
EXTENDS Integers, Sequences, FiniteSets, TLC

VARIABLES props, ret, nextId, oob

vars == <<props, ret, nextId, oob>>

\* ---------------------------------------------------------------- bounds
MaxLen == 2
Extra == 1
MaxPolyTokens == 2
MaxObjects == 4

\* ------------------------------------------------------------ fixed point
Unit == 10 ^ 5

\* ------------------------------------------------------- property names
kRGBPolynomialOffset == "persist.dvr.rgb_poly_offset"
kRPolynomial == "persist.dvr.r_poly"
kGPolynomial == "persist.dvr.g_poly"
kBPolynomial == "persist.dvr.b_poly"
kLensDistance == "persist.dvr.lens_distance"
kDisplayGap == "persist.dvr.display_gap"
kVEyeToDisplay == "persist.dvr.v_eye_to_display"
kFovIOBT == "persist.dvr.fov_iobt"
kScreenSize == "persist.dvr.screen_size"

ScalarKeys == {kLensDistance, kDisplayGap, kVEyeToDisplay}
VectorKeys ==
    {kRGBPolynomialOffset, kRPolynomial, kGPolynomial, kBPolynomial,
     kFovIOBT, kScreenSize}
Keys == ScalarKeys \cup VectorKeys

\* ------------------------------------------------------------- strtof
DigitChars == <<"0", "1", "2", "3", "4", "5", "6", "7", "8", "9">>
IsDigit(c) == \E i \in 1..10 : DigitChars[i] = c
DigitVal(c) == (CHOOSE i \in 1..10 : DigitChars[i] = c) - 1
IsSpace(c) == c = " "

RECURSIVE SkipSpaces(_, _)
SkipSpaces(s, i) ==
    IF i <= Len(s) /\ IsSpace(s[i]) THEN SkipSpaces(s, i + 1) ELSE i

RECURSIVE DigitsEnd(_, _)
DigitsEnd(s, i) ==
    IF i <= Len(s) /\ IsDigit(s[i]) THEN DigitsEnd(s, i + 1) ELSE i

\* value of the digit run s[i..j-1] read as a whole number
RECURSIVE IntValue(_, _, _)
IntValue(s, i, j) ==
    IF j <= i THEN 0 ELSE IntValue(s, i, j - 1) * 10 + DigitVal(s[j - 1])

\* value, in 1/Unit, of the digit run s[i..j-1] read after the radix point;
\* w is the weight of the digit at i
RECURSIVE FracValue(_, _, _, _)
FracValue(s, i, j, w) ==
    IF j <= i THEN 0
    ELSE DigitVal(s[i]) * w + FracValue(s, i + 1, j, w \div 10)

\* std::strtof(str, &endptr): leading white space, an optional sign, decimal
\* digits with an optional radix point.  endptr is the count of characters
\* consumed, 0 when no conversion is performed (endptr == str).  The steps
\* pass the positions on: a after the white space, b after the sign, c after
\* the whole digits, d after the fraction.  Exponents, hexadecimal numbers,
\* "inf" and "nan" need characters that Alphabet does not hold.
HasChar(s, i, ch) == i <= Len(s) /\ s[i] = ch

StrtofValue(s, a, b, c, d) ==
    IF (c - b) + (d - c) > (IF d > c THEN 1 ELSE 0)
    THEN [value |-> (IF HasChar(s, a, "-") THEN 0 - 1 ELSE 1)
                    * (IntValue(s, b, c) * Unit
                       + FracValue(s, c + 1, d, Unit \div 10)),
          endptr |-> d - 1]
    ELSE [value |-> 0, endptr |-> 0]

StrtofFraction(s, a, b, c) ==
    StrtofValue(s, a, b, c,
                IF HasChar(s, c, ".") THEN DigitsEnd(s, c + 1) ELSE c)

StrtofDigits(s, a, b) == StrtofFraction(s, a, b, DigitsEnd(s, b))

StrtofSign(s, a) ==
    StrtofDigits(s, a,
                 IF HasChar(s, a, "-") \/ HasChar(s, a, "+") THEN a + 1 ELSE a)

Strtof(s) == StrtofSign(s, SkipSpaces(s, 1))

\* the return statement of StringToFloat, r being what strtof left
StringToFloatReturn(r) == [ok |-> ~(r.endptr = 0), result |-> r.value]

StringToFloat(str) == StringToFloatReturn(Strtof(str))

\* ---------------------------------------------------------- SplitString
\* std::getline in a loop: the text up to each deliminator is one element;
\* what follows the last deliminator is an element only if it is not empty.
RECURSIVE SplitFrom(_, _, _, _)
SplitFrom(s, i, cur, deliminator) ==
    IF i > Len(s) THEN (IF cur = <<>> THEN <<>> ELSE <<cur>>)
    ELSE IF s[i] = deliminator
         THEN <<cur>> \o SplitFrom(s, i + 1, <<>>, deliminator)
         ELSE SplitFrom(s, i + 1, Append(cur, s[i]), deliminator)

SplitString(string_to_split, deliminator) ==
    SplitFrom(string_to_split, 1, <<>>, deliminator)

\* ---------------------------------------------------------- GetProperty
\* property_get(name, prop, ""): the stored text, empty when unset
property_get(p, name) == p[name]

\* variant: a value that fails to parse is pushed as 0 instead of skipped
PushIfParsed_Zero(r) == IF r.ok THEN <<r.result>> ELSE <<0>>

\* the body of the loop of the vector GetProperty, r being StringToFloat's
\* answer for one value
PushIfParsed(r) == IF r.ok THEN <<r.result>> ELSE <<>>

RECURSIVE ParseAll(_)
ParseAll(values) ==
    IF values = <<>> THEN <<>>
    ELSE PushIfParsed(StringToFloat(Head(values))) \o ParseAll(Tail(values))

ResultsOrDefault(results, default_values) ==
    IF results = <<>> THEN default_values ELSE results

GetPropertyVector(p, name, default_values) ==
    ResultsOrDefault(ParseAll(SplitString(property_get(p, name), ",")),
                     default_values)

ResultOrDefault(r, default_value) ==
    IF r.ok THEN r.result ELSE default_value

GetPropertyFloat(p, name, default_value) ==
    ResultOrDefault(StringToFloat(property_get(p, name)), default_value)

\* ------------------------------------------------------ derived getters
\* operator[] of std::vector, 0-based: reading at or past size() is undefined
\* behaviour, here the unspecified value g
At(v, i, g) == IF i < Len(v) THEN v[i + 1] ELSE g
InRange(v, n) == n <= Len(v)

GetInterLensDistance(p) == GetPropertyFloat(p, kLensDistance, 6400)
GetDisplayGap(p) == GetPropertyFloat(p, kDisplayGap, 0)
GetVEyeToDisplay(p) == GetPropertyFloat(p, kVEyeToDisplay, 3500)

default_size == <<7422, 13194>>

\* variant: the size check is left out
CheckDisplaySizes_Keep(sizes) == sizes

\* the size check of GetDisplaySize
CheckDisplaySizes(sizes) == IF Len(sizes) # 0 THEN default_size ELSE sizes

\* the vector GetDisplaySize indexes
DisplaySizes(p) ==
    CheckDisplaySizes(GetPropertyVector(p, kScreenSize, default_size))

Vec2At(sizes, g) == <<At(sizes, 0, g), At(sizes, 1, g)>>

GetDisplaySize(p, g) == Vec2At(DisplaySizes(p), g)

fov_defaults == <<4370000, 4780000, 5420000, 5420000>>

\* value * M_PI / 180.0f, with 355/113 for M_PI
ToRadians(value) == ((value \div 18) * 355) \div 1130

AllToRadians(fovs) == [i \in 1..Len(fovs) |-> ToRadians(fovs[i])]

\* variant: missing components are filled in from the defaults
CheckFovs_Pad(fovs) == SubSeq(fovs \o fov_defaults, 1, 4)

\* the size check of GetMaxFOVs
CheckFovs(fovs) == IF Len(fovs) # 4 THEN fov_defaults ELSE fovs

GetMaxFOVs(p) ==
    AllToRadians(CheckFovs(GetPropertyVector(p, kFovIOBT, fov_defaults)))

kDefaultVerticalAlignment == "kCenter"
kScreenBorderSize == 400
kScreenRefreshRate == 60
kDisplayOrientation == "kPortrait"

\* ------------------------------------------------------------- factories
default_r ==
    <<0 - 408519, 3470282, 0 - 6737781, 5697304, 0 - 2335769, 471996, 63198>>
default_g ==
    <<443078, 347807, 0 - 2058017, 2085880, 0 - 840465, 161285, 88818>>
default_b ==
    <<1204141, 0 - 2198112, 1406758, 0 - 315246, 36549, 5253, 99844>>
default_offsets == <<20972, 15189, 100097>>

\* new PolynomialRadialDistortion(offset, coefficients), allocated at id
PolynomialRadialDistortion(id, offset, coefficients) ==
    [id |-> id, class |-> "PolynomialRadialDistortion",
     offset |-> offset, coefficients |-> coefficients]

\* variant: one function-static instance serves every call
IdentityDistortion_Static(id) ==
    [id |-> 1, class |-> "IdentityDistortion",
     offset |-> 0, coefficients |-> <<>>]

\* std::make_shared<IdentityDistortion>(), allocated at id
IdentityDistortion(id) ==
    [id |-> id, class |-> "IdentityDistortion",
     offset |-> 0, coefficients |-> <<>>]

\* variant: missing components are filled in from the defaults
CheckPolyOffsets_Pad(poly_offsets) ==
    SubSeq(poly_offsets \o default_offsets, 1, 3)

\* the size check of CreateHeadMountMetrics
CheckPolyOffsets(poly_offsets) ==
    IF Len(poly_offsets) # 3 THEN default_offsets ELSE poly_offsets

\* the offsets CreateHeadMountMetrics indexes
PolyOffsets(p) ==
    CheckPolyOffsets(GetPropertyVector(p, kRGBPolynomialOffset, default_offsets))

HeadMountMetrics(inter_lens_distance, eye_to_display_l, eye_to_display_r, vertical_alignment, l_fov, r_fov, distortion_r, distortion_g, distortion_b, l_orientation, r_orientation, tray_to_lens) ==
    [inter_lens_distance |-> inter_lens_distance,
     eye_to_display_l |-> eye_to_display_l,
     eye_to_display_r |-> eye_to_display_r,
     vertical_alignment |-> vertical_alignment,
     l_fov |-> l_fov, r_fov |-> r_fov,
     distortion_r |-> distortion_r, distortion_g |-> distortion_g,
     distortion_b |-> distortion_b,
     l_orientation |-> l_orientation, r_orientation |-> r_orientation,
     tray_to_lens |-> tray_to_lens]

\* the three instances CreateHeadMountMetrics allocates, in the order of
\* its new expressions; id is the last instance allocated before the call
NewDistortions(poly_offsets, poly_r, poly_g, poly_b, id, g) ==
    <<PolynomialRadialDistortion(id + 1, At(poly_offsets, 0, g), poly_r),
      PolynomialRadialDistortion(id + 2, At(poly_offsets, 1, g), poly_g),
      PolynomialRadialDistortion(id + 3, At(poly_offsets, 2, g), poly_b)>>

\* the return statement of CreateHeadMountMetrics(l_fov, r_fov)
ReturnHeadMountMetrics(p, l_fov, r_fov, distortions) ==
    HeadMountMetrics(GetInterLensDistance(p), GetVEyeToDisplay(p),
                     GetVEyeToDisplay(p), kDefaultVerticalAlignment, l_fov,
                     r_fov, distortions[1], distortions[2], distortions[3],
                     "kCCW0Degrees", "kCCW0Degrees",
                     (GetInterLensDistance(p) - GetDisplayGap(p)) \div 2)

CreateHeadMountMetrics(p, l_fov, r_fov, id, g) ==
    ReturnHeadMountMetrics(
        p, l_fov, r_fov,
        NewDistortions(PolyOffsets(p),
                       GetPropertyVector(p, kRPolynomial, default_r),
                       GetPropertyVector(p, kGPolynomial, default_g),
                       GetPropertyVector(p, kBPolynomial, default_b), id, g))

\* variant: the division binds to the display gap alone
ReturnUndistorted_Precedence(p, l_fov, r_fov, distortion_all) ==
    HeadMountMetrics(GetInterLensDistance(p), GetVEyeToDisplay(p),
                     GetVEyeToDisplay(p), kDefaultVerticalAlignment, l_fov,
                     r_fov, distortion_all, distortion_all, distortion_all,
                     "kCCW0Degrees", "kCCW0Degrees",
                     GetInterLensDistance(p) - (GetDisplayGap(p) \div 2))

\* the return statement of CreateUndistortedHeadMountMetrics(l_fov, r_fov)
ReturnUndistorted(p, l_fov, r_fov, distortion_all) ==
    HeadMountMetrics(GetInterLensDistance(p), GetVEyeToDisplay(p),
                     GetVEyeToDisplay(p), kDefaultVerticalAlignment, l_fov,
                     r_fov, distortion_all, distortion_all, distortion_all,
                     "kCCW0Degrees", "kCCW0Degrees",
                     (GetInterLensDistance(p) - GetDisplayGap(p)) \div 2)

CreateUndistortedHeadMountMetrics(p, l_fov, r_fov, id) ==
    ReturnUndistorted(p, l_fov, r_fov, IdentityDistortion(id + 1))

\* variant: the left eye is built like the right eye
LeftFov_NoSwap(fovs, g) ==
    <<At(fovs, 0, g), At(fovs, 1, g), At(fovs, 2, g), At(fovs, 3, g)>>

\* the two FieldOfView objects the no-argument factories build
LeftFov(fovs, g) ==
    <<At(fovs, 1, g), At(fovs, 0, g), At(fovs, 2, g), At(fovs, 3, g)>>
RightFov(fovs, g) ==
    <<At(fovs, 0, g), At(fovs, 1, g), At(fovs, 2, g), At(fovs, 3, g)>>

\* meters per pixel are kept in 1/(Unit * PixelScale)
PixelScale == 10 ^ 3

DisplayMetrics(screen_size, meters_per_pixel, border_size, frame_duration, orientation) ==
    [screen_size |-> screen_size, meters_per_pixel |-> meters_per_pixel,
     border_size |-> border_size, frame_duration |-> frame_duration,
     orientation |-> orientation]

MetersPerPixel(size_in_meters, screen_size) ==
    <<(size_in_meters[1] * PixelScale) \div screen_size[1],
      (size_in_meters[2] * PixelScale) \div screen_size[2]>>

CreateDisplayMetrics(p, screen_size, g) ==
    DisplayMetrics(screen_size,
                   MetersPerPixel(GetDisplaySize(p, g), screen_size),
                   kScreenBorderSize, (1000 * Unit) \div kScreenRefreshRate,
                   kDisplayOrientation)

\* ---------------------------------------------------------------- inputs
Alphabet == {"1", ".", "-", " ", "x", ","}
Strings(n) == UNION {[1..m -> Alphabet] : m \in 0..n}

VecTokens == {<<"1">>, <<"2">>, <<"x">>}

RECURSIVE JoinTokens(_)
JoinTokens(ts) ==
    IF ts = <<>> THEN <<>>
    ELSE IF Len(ts) = 1 THEN ts[1]
    ELSE ts[1] \o <<",">> \o JoinTokens(Tail(ts))

TokenJoins(n) ==
    {JoinTokens(ts) : ts \in UNION {[1..m -> VecTokens] : m \in 0..n}}

\* the component count the code checks a key's vector against, 0 if none
CheckedSize(name) ==
    CASE name = kScreenSize -> 2
      [] name = kRGBPolynomialOffset -> 3
      [] name = kFovIOBT -> 4
      [] OTHER -> 0

Domain(name) ==
    IF name \in ScalarKeys THEN Strings(MaxLen)
    ELSE Strings(MaxLen) \cup
         TokenJoins(IF CheckedSize(name) = 0 THEN MaxPolyTokens
                    ELSE CheckedSize(name) + Extra)

Unset == [name \in Keys |-> <<>>]
Configured ==
    [name \in Keys |->
        CASE name = kLensDistance -> <<"2">>
          [] name = kDisplayGap -> <<"1">>
          [] name = kVEyeToDisplay -> <<".", "1">>
          [] name = kScreenSize -> <<"1", ",", "2">>
          [] name = kFovIOBT -> <<"1", ",", "2", ",", "1", ",", "2">>
          [] name = kRGBPolynomialOffset -> <<"2", ",", "1", ",", "2">>
          [] name = kRPolynomial -> <<"1">>
          [] name = kGPolynomial -> <<"2">>
          [] name = kBPolynomial -> <<"1", ",", "2">>]
Backgrounds == {Unset, Configured}

\* an out-of-range read yields one of these
Garbage == {0, Unit}
Unspecified(inRange) == IF inRange THEN {0} ELSE Garbage

FloatDefaults == {0, 6400}
VectorDefaults == {<<7 * Unit>>}
FovPairs == {<< <<1, 2, 3, 4>>, <<5, 6, 7, 8>> >>}
Resolutions == {<<1000, 1000>>, <<1080, 1920>>}

\* --------------------------------------------------------- state machine
NoCall == [op |-> "none"]

Init ==
    /\ \E bg \in Backgrounds, name \in Keys :
         \E text \in Domain(name) : props = [bg EXCEPT ![name] = text]
    /\ ret = NoCall
    /\ nextId = 0
    /\ oob = FALSE

CallGetPropertyFloat(name, default_value) ==
    /\ ret' = [op |-> "GetPropertyFloat", args |-> <<name, default_value>>,
               value |-> GetPropertyFloat(props, name, default_value)]
    /\ UNCHANGED <<props, nextId, oob>>

CallGetPropertyVector(name, default_values) ==
    /\ ret' = [op |-> "GetPropertyVector", args |-> <<name, default_values>>,
               value |-> GetPropertyVector(props, name, default_values)]
    /\ UNCHANGED <<props, nextId, oob>>

\* In each step below g is what a read past the end of a vector yields and
\* oob records that such a read happened.
CallGetDisplaySize ==
    /\ \E sizes \in {DisplaySizes(props)} :
         /\ \E g \in Unspecified(InRange(sizes, 2)) :
              ret' = [op |-> "GetDisplaySize", args |-> <<>>,
                      value |-> GetDisplaySize(props, g)]
         /\ oob' = (oob \/ ~InRange(sizes, 2))
    /\ UNCHANGED <<props, nextId>>

CallGetMaxFOVs ==
    /\ ret' = [op |-> "GetMaxFOVs", args |-> <<>>, value |-> GetMaxFOVs(props)]
    /\ UNCHANGED <<props, nextId, oob>>

CallCreateHeadMountMetricsFov(l_fov, r_fov) ==
    /\ nextId + 3 <= MaxObjects
    /\ \E poly_offsets \in {PolyOffsets(props)} :
         /\ \E g \in Unspecified(InRange(poly_offsets, 3)) :
              ret' = [op |-> "CreateHeadMountMetrics", args |-> <<l_fov, r_fov>>,
                      value |-> CreateHeadMountMetrics(props, l_fov, r_fov,
                                                       nextId, g)]
         /\ oob' = (oob \/ ~InRange(poly_offsets, 3))
    /\ nextId' = nextId + 3
    /\ UNCHANGED props

CallCreateHeadMountMetrics ==
    /\ nextId + 3 <= MaxObjects
    /\ \E fovs \in {GetMaxFOVs(props)}, poly_offsets \in {PolyOffsets(props)} :
         /\ \E g \in Unspecified(InRange(fovs, 4) /\ InRange(poly_offsets, 3)) :
              ret' = [op |-> "CreateHeadMountMetrics", args |-> <<>>,
                      value |-> CreateHeadMountMetrics(
                                    props, LeftFov(fovs, g), RightFov(fovs, g),
                                    nextId, g)]
         /\ oob' = (oob \/ ~(InRange(fovs, 4) /\ InRange(poly_offsets, 3)))
    /\ nextId' = nextId + 3
    /\ UNCHANGED props

CallCreateDisplayMetrics(screen_size) ==
    /\ \E sizes \in {DisplaySizes(props)} :
         /\ \E g \in Unspecified(InRange(sizes, 2)) :
              ret' = [op |-> "CreateDisplayMetrics", args |-> <<screen_size>>,
                      value |-> CreateDisplayMetrics(props, screen_size, g)]
         /\ oob' = (oob \/ ~InRange(sizes, 2))
    /\ UNCHANGED <<props, nextId>>

CallCreateUndistortedHeadMountMetrics ==
    /\ nextId + 1 <= MaxObjects
    /\ \E fovs \in {GetMaxFOVs(props)} :
         /\ \E g \in Unspecified(InRange(fovs, 4)) :
              ret' = [op |-> "CreateUndistortedHeadMountMetrics",
                      args |-> <<>>,
                      value |-> CreateUndistortedHeadMountMetrics(
                                    props, LeftFov(fovs, g), RightFov(fovs, g),
                                    nextId)]
         /\ oob' = (oob \/ ~InRange(fovs, 4))
    /\ nextId' = nextId + 1
    /\ UNCHANGED props

CallCreateUndistortedHeadMountMetricsFov(l_fov, r_fov) ==
    /\ nextId + 1 <= MaxObjects
    /\ ret' = [op |-> "CreateUndistortedHeadMountMetrics",
               args |-> <<l_fov, r_fov>>,
               value |-> CreateUndistortedHeadMountMetrics(props, l_fov, r_fov,
                                                           nextId)]
    /\ nextId' = nextId + 1
    /\ UNCHANGED <<props, oob>>

\* the entry points of the library
Next ==
    \/ \E f \in FovPairs : CallCreateHeadMountMetricsFov(f[1], f[2])
    \/ CallCreateHeadMountMetrics
    \/ \E res \in Resolutions : CallCreateDisplayMetrics(res)
    \/ CallCreateUndistortedHeadMountMetrics
    \/ \E f \in FovPairs : CallCreateUndistortedHeadMountMetricsFov(f[1], f[2])

Spec == Init /\ [][Next]_vars

\* the accessors and getters of the anonymous namespace, called on their own
NextAccessors ==
    \/ \E name \in ScalarKeys, d \in FloatDefaults : CallGetPropertyFloat(name, d)
    \/ \E name \in VectorKeys, d \in VectorDefaults : CallGetPropertyVector(name, d)
    \/ CallGetDisplaySize
    \/ CallGetMaxFOVs

SpecAccessors == Init /\ [][NextAccessors]_vars

\* ================================================================ claims
\* what the property text of a key splits into, and what of it parses
Tokens(name) == SplitString(props[name], ",")
Parsed(name) == ParseAll(Tokens(name))
\* strtof consumed the whole of a text, which is not empty
WholeNumber(text) ==
    Strtof(text).endptr # 0 /\ Strtof(text).endptr = Len(text)
\* strtof converted a prefix of a text and left characters over
TrailingData(text) ==
    Strtof(text).endptr # 0 /\ Strtof(text).endptr < Len(text)

IsHeadMount == ret.op = "CreateHeadMountMetrics"
IsUndistorted == ret.op = "CreateUndistortedHeadMountMetrics"
IsDisplay == ret.op = "CreateDisplayMetrics"

\* C1: the scalar GetProperty returns the parsed number only when the whole
\* property text is consumed as one number, and the caller's default in every
\* other case (empty text, no number, a number followed by other characters).
C1_DefaultUnlessWholeNumber ==
    ret.op = "GetPropertyFloat" =>
        LET text == props[ret.args[1]]
        IN  ret.value = IF WholeNumber(text) THEN Strtof(text).value
                        ELSE ret.args[2]

\* C2: the vector GetProperty returns the values of exactly the tokens that
\* parse, in their order in the text, and the default vector iff none parses.
ParsedAt(name) == {i \in 1..Len(Tokens(name)) : StringToFloat(Tokens(name)[i]).ok}
Rank(name, i) == Cardinality({k \in ParsedAt(name) : k <= i})
C3_ConfiguredSizePerPixel ==
    IsDisplay =>
        LET size == IF Len(Parsed(kScreenSize)) = 2 THEN Parsed(kScreenSize)
                    ELSE default_size
        IN  ret.value.meters_per_pixel = MetersPerPixel(size, ret.args[1])

\* C4: GetMaxFOVs returns 4 values in radians: the 4 parsed components of
\* fov_iobt in order when there are exactly 4, else the whole default.
C4_FovsConfiguredOrDefault ==
    ret.op = "GetMaxFOVs" =>
        /\ Len(ret.value) = 4
        /\ LET fovs == IF Len(Parsed(kFovIOBT)) = 4 THEN Parsed(kFovIOBT)
                       ELSE <<4370000, 4780000, 5420000, 5420000>>
           IN  \A i \in 1..4 : ret.value[i] = ToRadians(fovs[i])
C4_Witness ==
    /\ ret.op = "GetMaxFOVs"
    /\ Len(Parsed(kFovIOBT)) = 4
    /\ ret.value[1] # ret.value[2]
    /\ ret.value[1] # ToRadians(4370000)

\* the vector of a key that reached the returned object, with the candidates
\* passed through what the factory does to the vector (radians for the fields
\* of view, the division by the resolution for the screen size)
UsedIs(name, v) ==
    CASE name = kRGBPolynomialOffset ->
           IsHeadMount =>
               v = <<ret.value.distortion_r.offset, ret.value.distortion_g.offset,
                     ret.value.distortion_b.offset>>
      [] name = kRPolynomial ->
           IsHeadMount => v = ret.value.distortion_r.coefficients
      [] name = kGPolynomial ->
           IsHeadMount => v = ret.value.distortion_g.coefficients
      [] name = kBPolynomial ->
           IsHeadMount => v = ret.value.distortion_b.coefficients
      [] name = kFovIOBT ->
           ((IsHeadMount \/ IsUndistorted) /\ ret.args = <<>>) =>
               (Len(v) = 4 /\ AllToRadians(v) = ret.value.r_fov)
      [] name = kScreenSize ->
           IsDisplay =>
               (Len(v) = 2
                /\ MetersPerPixel(v, ret.args[1]) = ret.value.meters_per_pixel)

DefaultOf(name) ==
    CASE name = kRGBPolynomialOffset -> default_offsets
      [] name = kRPolynomial -> default_r
      [] name = kGPolynomial -> default_g
      [] name = kBPolynomial -> default_b
      [] name = kFovIOBT -> fov_defaults
      [] name = kScreenSize -> default_size

SizeAccepted(name, n) == CheckedSize(name) = 0 \/ n = CheckedSize(name)

FactoryValue(p) ==
    CASE IsHeadMount /\ ret.args = <<>> ->
           CreateHeadMountMetrics(p, LeftFov(GetMaxFOVs(p), 0),
                                  RightFov(GetMaxFOVs(p), 0), nextId - 3, 0)
      [] IsHeadMount /\ ret.args # <<>> ->
           CreateHeadMountMetrics(p, ret.args[1], ret.args[2], nextId - 3, 0)
      [] IsUndistorted /\ ret.args = <<>> ->
           CreateUndistortedHeadMountMetrics(
               p, LeftFov(GetMaxFOVs(p), 0), RightFov(GetMaxFOVs(p), 0),
               nextId - 1)
      [] IsUndistorted /\ ret.args # <<>> ->
           CreateUndistortedHeadMountMetrics(p, ret.args[1], ret.args[2],
                                             nextId - 1)
      [] IsDisplay -> CreateDisplayMetrics(p, ret.args[1], 0)

\* a property text that is malformed for its key: no number in it, a token
\* with characters after its number, or a count of parsed components other
\* than the one the key requires
Malformed(name) ==
    LET tokens == IF name \in ScalarKeys THEN <<props[name]>> ELSE Tokens(name)
    IN  /\ props[name] # <<>>
        /\ \/ \A i \in 1..Len(tokens) : Strtof(tokens[i]).endptr = 0
           \/ \E i \in 1..Len(tokens) : TrailingData(tokens[i])
           \/ /\ name \in VectorKeys
              /\ CheckedSize(name) # 0
              /\ Len(ParseAll(tokens)) # CheckedSize(name)

\* C6: a factory returns for a store with one malformed key what it returns
\* for the same store with that key unset.
C6_MalformedAsAbsent ==
    (IsHeadMount \/ IsUndistorted \/ IsDisplay) =>
        \A name \in Keys :
            Malformed(name) =>
                ret.value = FactoryValue([props EXCEPT ![name] = <<>>])

\* C7: in the object of both head mount factories the tray to lens offset is
\* (D - G) / 2 and the inter-lens distance is D, D being lens_distance
\* (default 0.064) and G display_gap (default 0.0).
C7_TrayOffset ==
    (IsHeadMount \/ IsUndistorted) =>
        LET D == IF Strtof(props[kLensDistance]).endptr = 0 THEN 6400
                 ELSE Strtof(props[kLensDistance]).value
            G == IF Strtof(props[kDisplayGap]).endptr = 0 THEN 0
                 ELSE Strtof(props[kDisplayGap]).value
        IN  /\ ret.value.tray_to_lens = (D - G) \div 2
            /\ ret.value.inter_lens_distance = D
C7_Witness ==
    /\ IsUndistorted
    /\ Strtof(props[kLensDistance]).endptr # 0
    /\ Strtof(props[kDisplayGap]).endptr # 0
    /\ Strtof(props[kDisplayGap]).value # 0
    /\ Strtof(props[kDisplayGap]).value # Strtof(props[kLensDistance]).value

\* C8: a call of the undistorted factory puts one new identity instance in
\* the three channel slots; a call of the standard factory puts three distinct
\* new polynomial instances in them, channel i built from offset i and its own
\* coefficients; no instance of a call was allocated before the call.
ChannelsOf(v) == <<v.distortion_r, v.distortion_g, v.distortion_b>>
ChannelKeys == <<kRPolynomial, kGPolynomial, kBPolynomial>>
ChannelDefaults == <<default_r, default_g, default_b>>
C8_ChannelInstances ==
    [][nextId' # nextId =>
        LET ch == ChannelsOf(ret'.value)
            offsets == IF Len(Parsed(kRGBPolynomialOffset)) = 3
                       THEN Parsed(kRGBPolynomialOffset) ELSE default_offsets
        IN  /\ \A i \in 1..3 : ch[i].id > nextId /\ ch[i].id <= nextId'
            /\ ret'.op = "CreateUndistortedHeadMountMetrics" =>
                 /\ ch[1].id = ch[2].id /\ ch[2].id = ch[3].id
                 /\ \A i \in 1..3 : ch[i].class = "IdentityDistortion"
            /\ ret'.op = "CreateHeadMountMetrics" =>
                 /\ ch[1].id # ch[2].id /\ ch[2].id # ch[3].id
                 /\ ch[1].id # ch[3].id
                 /\ \A i \in 1..3 :
                      /\ ch[i].class = "PolynomialRadialDistortion"
                      /\ ch[i].offset = offsets[i]
                      /\ ch[i].coefficients
                           = IF Parsed(ChannelKeys[i]) = <<>>
                             THEN ChannelDefaults[i]
                             ELSE Parsed(ChannelKeys[i])]_vars
C8_Witness ==
    /\ IsHeadMount
    /\ nextId = 4
    /\ ret.value.distortion_r.id = 2
    /\ ret.value.distortion_b.id = 4
    /\ Parsed(kGPolynomial) # <<>>

\* C9: both no-argument factories build, from the max-FOV vector f, the left
\* field of view (f[1], f[0], f[2], f[3]) and the right one (f[0], f[1], f[2],
\* f[3]).
C9_MirroredFovs ==
    ((IsHeadMount \/ IsUndistorted) /\ ret.args = <<>>) =>
        LET f == GetMaxFOVs(props)
        IN  /\ ret.value.r_fov = <<f[1], f[2], f[3], f[4]>>
            /\ ret.value.l_fov = <<f[2], f[1], f[3], f[4]>>
C9_Witness ==
    /\ IsUndistorted
    /\ ret.args = <<>>
    /\ Len(Parsed(kFovIOBT)) = 4
    /\ ret.value.r_fov[1] # ret.value.r_fov[2]
    /\ ret.value.l_fov[1] = ret.value.r_fov[2]

\* C10: no factory reads a configuration vector past its end, whatever the
\* property store holds.
C10_IndexInRange == oob = FALSE
C10_Witness ==
    /\ IsDisplay
    /\ Len(Parsed(kScreenSize)) = 1
    /\ oob = FALSE

====
